---------------------------- MODULE Spec2Model ----------------------------
(***************************************************************************)
(* Model of the audio visualizer pipeline of src/src/main.c: the capture   *)
(* callback (audio_callback), the background transform thread              *)
(* (audio_processing_thread / process_audio), the foreground thread (main, *)
(* initialize_sdl, cleanup) and the bar-height computation of              *)
(* render_spectrum.                                                        *)
(*                                                                         *)
(* A program counter names the statement a context is about to execute     *)
(* (or, for a library call, is inside of).                                 *)
(*                                                                         *)
(* Floats: a sample audio_data[i] / 32768.0f is an exact dyadic rational;  *)
(* it is kept as a record with its numerator and denominator in lowest     *)
(* terms. The product of a value x with the Hann weight of index i and a   *)
(* bin of a transform are kept symbolically, as records too.               *)
(***************************************************************************)
EXTENDS Integers, Sequences, FiniteSets, TLC

\* ------------------------------------------------------------------ bounds

\* FFT_SIZE of the model (main.c:18 has 4096; the code is the same for
\* every size > 1).
FFT_SIZE == 2

\* The longest block one audio_callback delivery carries is FFT_SIZE + BlockSlack.
BlockSlack == 1

\* Upper end of the dB levels render_spectrum is evaluated on.
MaxDb == 12

\* Largest height in pixels of the rendering surface.
MaxHeight == 4

\* ------------------------------------------------------- program constants

BINS == FFT_SIZE \div 2 + 1

PCM_SCALE == 32768

DB_FLOOR == 80

\* sizeof(int16_t): bytes per sample of the stream handed to audio_callback.
SAMPLE_BYTES == 2

\* The longest block, in samples, the capture device delivers in the model.
MaxBlock == FFT_SIZE + BlockSlack

\* Raw 16-bit PCM values the capture device delivers in the model.
RawSamples == {-32768, 16384}

NULL == "NULL"

\* ----------------------------------------------------------------- helpers

RECURSIVE GCD(_, _)
GCD(a, b) == IF b = 0 THEN a ELSE GCD(b, a % b)

Abs(x) == IF x < 0 THEN -x ELSE x

Max(a, b) == IF a >= b THEN a ELSE b

\* audio_data[i] / 32768.0f, as a fraction in lowest terms.
Normalize(raw) ==
    LET g == GCD(Abs(raw), PCM_SCALE)
    IN  [kind |-> "sample", num |-> raw \div g, den |-> PCM_SCALE \div g]

\* The float 0.0f a zero-initialised AppState holds.
ZeroSample == [kind |-> "sample", num |-> 0, den |-> 1]

\* What malloc / fftwf_malloc hand out, what the FFTW planner leaves in
\* the arrays it measures on, and a local array outside its scope.
Uninit == [kind |-> "uninit"]

Scratch == [kind |-> "scratch"]

OutOfScope == [kind |-> "dead"]

\* An AppState left uninitialised.
GarbageBuffer == [j \in 0..(FFT_SIZE - 1) |-> Uninit]

\* AppState state = {0}: every entry of audio_buffer is 0.0f.
ZeroBuffer == [j \in 0..(FFT_SIZE - 1) |-> ZeroSample]

\* The window read one entry too late.
RingReadShifted(buf, idx, i) == buf[(idx + i + 1) % FFT_SIZE]

\* state->audio_buffer[(idx + i) % FFT_SIZE]
RingRead(buf, idx, i) == buf[(idx + i) % FFT_SIZE]

\* One iteration of the loop of audio_callback: store at the cursor.
RingStore(buf, index, sample) == [buf EXCEPT ![index] = sample]

\* A cursor that is incremented without the wrap.
RingAdvanceNoWrap(index) == index + 1

\* state->audio_buffer_index = (state->audio_buffer_index + 1) % FFT_SIZE
RingAdvance(index) == (index + 1) % FFT_SIZE

\* The last FFT_SIZE entries of a history (all of it while it is shorter).
Recent(h) ==
    IF Len(h) <= FFT_SIZE THEN h
    ELSE SubSeq(h, Len(h) - FFT_SIZE + 1, Len(h))

\* fft_input[i] *= hann(i)
Taper(x, i) == [kind |-> "tapered", hann |-> i, x |-> x]

\* bar_height of render_spectrum for a bin whose level is db decibels on a
\* surface win_h pixels high, in hundredths of a pixel:
\* max_bar_height = win_h * 0.8f;
\* bar_height = fmaxf(0, (db + 80) / 80 * max_bar_height).
BarHeight(level, h) == Max(0, (level + DB_FLOOR) * h)

\* max_bar_height = win_h * 0.8f, in hundredths of a pixel.
MaxBarHeight(h) == 80 * h

\* fftwf_execute(g_fft_plan): bin k of the r2c transform of the input array.
Transform(input) ==
    [k \in 0..(BINS - 1) |-> [kind |-> "bin", bin |-> k, of |-> input]]


\* ------------------------------------------------------------------- state

VARIABLES
    mpc,                \* foreground thread (main, initialize_sdl, cleanup)
    bpc,                \* background thread (audio_processing_thread)
    cpc,                \* audio callback context (audio_callback)
    running,            \* state.running
    alloc,              \* which handles / pointers of AppState are non-NULL
    g_fft_plan,         \* the global plan: NULL or "plan"
    playing,            \* the audio device has been started and not closed
    audio_buffer,       \* state.audio_buffer, indexed 0..FFT_SIZE-1
    audio_buffer_index, \* state.audio_buffer_index
    fft_input,          \* contents of state.fft_input
    fft_output,         \* contents of state.fft_output
    fft_snapshot,       \* main's local copy of fft_output
    audio_owner,        \* holder of state.audio_mutex: "none", "cb", "bg"
    fft_owner,          \* holder of state.fft_mutex: "none", "bg", "main"
    idx,                \* process_audio's local idx
    i_bg,               \* loop index of process_audio / of the planner
    k_main,             \* progress of main's memcpy, in bins
    cb_left,            \* samples of the current block still to be written
    status,             \* exit code, diagnostic and pending return value
    crashed,            \* the process died on an invalid access
    written,            \* history: the last FFT_SIZE raw samples written
    delivery,           \* history: cursor and length at the start of the
                        \* current block, samples written so far mod FFT_SIZE
    log,                \* history: acquisitions, releases, cycles after stop
    db, win_h, bar_height   \* render_spectrum on one bin

vars == <<mpc, bpc, cpc, running, alloc, g_fft_plan, playing, audio_buffer,
          audio_buffer_index, fft_input, fft_output, fft_snapshot,
          audio_owner, fft_owner, idx, i_bg, k_main, cb_left, status,
          crashed, written, delivery, log, db, win_h, bar_height>>

pcs     == <<mpc, bpc, cpc>>
ring    == <<audio_buffer, audio_buffer_index, written, delivery>>
ffts    == <<fft_input, fft_output>>
locks   == <<audio_owner, fft_owner>>
bgLocal == <<idx, i_bg>>
render  == <<db, win_h, bar_height>>

Resources == {"sdl", "window", "renderer", "audio_device", "audio_mutex",
              "fft_input", "fft_output", "fft_mutex"}

Bins == 0..(BINS - 1)

\* int main: AppState state = {0}; static fftwf_plan g_fft_plan = NULL.
PipelineInit ==
    /\ mpc = "m_sdl_init"
    /\ bpc = "none"
    /\ cpc = "idle"
    /\ running = FALSE
    /\ alloc = [r \in Resources |-> FALSE]
    /\ g_fft_plan = NULL
    /\ playing = FALSE
    /\ audio_buffer = ZeroBuffer
    /\ audio_buffer_index = 0
    /\ fft_input = [j \in 0..(FFT_SIZE - 1) |-> Uninit]
    /\ fft_output = [k \in Bins |-> Uninit]
    /\ fft_snapshot = [k \in Bins |-> OutOfScope]
    /\ audio_owner = "none"
    /\ fft_owner = "none"
    /\ idx = 0
    /\ i_bg = 0
    /\ k_main = 0
    /\ cb_left = 0
    /\ status = [exit_code |-> -1, diag |-> "none", pending |-> 0]
    /\ crashed = FALSE
    /\ written = <<>>
    /\ delivery = [start |-> 0, len |-> 0, total |-> 0]
    /\ log = [acquired |-> <<>>, released |-> <<>>, late |-> 0]

\* bar_height before the loop body has assigned it.
NotComputed == 0 - 1

RenderIdle == db = 0 /\ win_h = 0 /\ bar_height = NotComputed

Init == PipelineInit /\ RenderIdle

\* The process is still executing.
Alive == ~crashed /\ mpc # "exit"

\* ---------------------------------------------------------- audio_callback

\* SDL invokes audio_callback with a stream of len bytes:
\* int samples = len / sizeof(int16_t).
CbBegin(lens) ==
    /\ Alive /\ playing /\ cpc = "idle"
    /\ \E len \in lens :
          /\ cb_left' = len \div SAMPLE_BYTES
          /\ delivery' = [delivery EXCEPT !.start = audio_buffer_index,
                                          !.len = len \div SAMPLE_BYTES]
    /\ cpc' = "cb_lock"
    /\ UNCHANGED <<mpc, bpc, running, alloc, g_fft_plan, playing,
                   audio_buffer, audio_buffer_index, written, ffts,
                   fft_snapshot, locks, bgLocal, k_main, status, crashed,
                   log, render>>

\* The callback writing without waiting for the mutex.
CbLockNoWait ==
    /\ Alive /\ cpc = "cb_lock"
    /\ audio_owner' = IF audio_owner = "none" THEN "cb" ELSE audio_owner
    /\ cpc' = IF cb_left > 0 THEN "cb_write" ELSE "cb_unlock"
    /\ UNCHANGED <<mpc, bpc, running, alloc, g_fft_plan, playing, ring, ffts,
                   fft_snapshot, fft_owner, bgLocal, k_main, cb_left, status,
                   crashed, log, render>>

\* SDL_LockMutex(state->audio_mutex); on a NULL mutex SDL returns at once.
\* Then the first test of the for loop, i = 0 < samples: an empty block goes
\* straight to the unlock.
CbLock ==
    /\ Alive /\ cpc = "cb_lock"
    /\ IF alloc["audio_mutex"]
          THEN audio_owner = "none" /\ audio_owner' = "cb"
          ELSE audio_owner' = audio_owner
    /\ cpc' = IF cb_left > 0 THEN "cb_write" ELSE "cb_unlock"
    /\ UNCHANGED <<mpc, bpc, running, alloc, g_fft_plan, playing, ring, ffts,
                   fft_snapshot, fft_owner, bgLocal, k_main, cb_left, status,
                   crashed, log, render>>

\* One iteration of the for loop: convert, store at the cursor, advance,
\* i++ and the next test of i < samples.
CbWrite(raws) ==
    /\ Alive /\ cpc = "cb_write" /\ cb_left > 0
    /\ \E raw \in raws :
          /\ audio_buffer' = RingStore(audio_buffer, audio_buffer_index,
                                       Normalize(raw))
          /\ written' = Recent(Append(written, raw))
    /\ delivery' = [delivery EXCEPT !.total = (@ + 1) % FFT_SIZE]
    /\ audio_buffer_index' = RingAdvance(audio_buffer_index)
    /\ cb_left' = cb_left - 1
    /\ cpc' = IF cb_left' = 0 THEN "cb_unlock" ELSE "cb_write"
    /\ UNCHANGED <<mpc, bpc, running, alloc, g_fft_plan, playing, ffts,
                   fft_snapshot, locks, bgLocal, k_main, status, crashed,
                   log, render>>

\* SDL_UnlockMutex(state->audio_mutex)
CbUnlock ==
    /\ Alive /\ cpc = "cb_unlock"
    /\ audio_owner' = IF audio_owner = "cb" THEN "none" ELSE audio_owner
    /\ delivery' = [delivery EXCEPT !.start = 0, !.len = 0]
    /\ cpc' = "idle"
    /\ UNCHANGED <<mpc, bpc, running, alloc, g_fft_plan, playing,
                   audio_buffer, audio_buffer_index, written, ffts,
                   fft_snapshot, fft_owner, bgLocal, k_main, cb_left, status,
                   crashed, log, render>>

\* ------------------------------------- audio_processing_thread, process_audio

\* while (state->running): enter process_audio, or return 0.
BgLoop ==
    /\ Alive /\ bpc = "b_loop"
    /\ IF running
          THEN bpc' = "b_lock_audio"
          ELSE bpc' = "done"
    /\ UNCHANGED <<mpc, cpc, running, alloc, g_fft_plan, playing, ring, ffts,
                   fft_snapshot, locks, bgLocal, k_main, cb_left, status,
                   crashed, log, render>>

\* SDL_LockMutex(state->audio_mutex); int idx = state->audio_buffer_index.
\* A cycle that gets here after the flag went false is counted in log.late.
BgLockAudio ==
    /\ Alive /\ bpc = "b_lock_audio"
    /\ audio_owner = "none"
    /\ audio_owner' = "bg"
    /\ idx' = audio_buffer_index
    /\ i_bg' = 0
    /\ log' = IF running THEN log
              ELSE [log EXCEPT !.late = IF @ < 2 THEN @ + 1 ELSE @]
    /\ bpc' = "b_copy"
    /\ UNCHANGED <<mpc, cpc, running, alloc, g_fft_plan, playing, ring, ffts,
                   fft_snapshot, fft_owner, k_main, cb_left, status, crashed,
                   render>>

\* A window copy that consumes what it reads, clearing the ring entry.
BgCopyDraining ==
    /\ Alive /\ bpc = "b_copy"
    /\ fft_input' = [fft_input EXCEPT ![i_bg] = RingRead(audio_buffer, idx, i_bg)]
    /\ audio_buffer' = [audio_buffer EXCEPT ![(idx + i_bg) % FFT_SIZE] = ZeroSample]
    /\ i_bg' = i_bg + 1
    /\ bpc' = IF i_bg' = FFT_SIZE THEN "b_unlock_audio" ELSE "b_copy"
    /\ UNCHANGED <<mpc, cpc, running, alloc, g_fft_plan, playing,
                   audio_buffer_index, written, delivery, fft_output,
                   fft_snapshot, locks, idx, k_main, cb_left, status,
                   crashed, log, render>>

\* state->fft_input[i] = state->audio_buffer[(idx + i) % FFT_SIZE]
BgCopy ==
    /\ Alive /\ bpc = "b_copy"
    /\ fft_input' = [fft_input EXCEPT ![i_bg] = RingRead(audio_buffer, idx, i_bg)]
    /\ i_bg' = i_bg + 1
    /\ bpc' = IF i_bg' = FFT_SIZE THEN "b_unlock_audio" ELSE "b_copy"
    /\ UNCHANGED <<mpc, cpc, running, alloc, g_fft_plan, playing, ring,
                   fft_output, fft_snapshot, locks, idx, k_main, cb_left,
                   status, crashed, log, render>>

\* process_audio keeping audio_mutex through the taper and the transform.
BgUnlockAudioMissing ==
    /\ Alive /\ bpc = "b_unlock_audio"
    /\ bpc' = "b_hann"
    /\ UNCHANGED <<mpc, cpc, running, alloc, g_fft_plan, playing, ring, ffts,
                   fft_snapshot, locks, bgLocal, k_main, cb_left, status,
                   crashed, log, render>>

\* SDL_UnlockMutex(state->audio_mutex)
BgUnlockAudio ==
    /\ Alive /\ bpc = "b_unlock_audio"
    /\ audio_owner' = IF audio_owner = "bg" THEN "none" ELSE audio_owner
    /\ bpc' = "b_hann"
    /\ UNCHANGED <<mpc, cpc, running, alloc, g_fft_plan, playing, ring, ffts,
                   fft_snapshot, fft_owner, bgLocal, k_main, cb_left, status,
                   crashed, log, render>>

\* process_audio building a new plan in every cycle.
BgHannReplan ==
    /\ Alive /\ bpc = "b_hann"
    /\ fft_input' = [j \in 0..(FFT_SIZE - 1) |-> Taper(fft_input[j], j)]
    /\ bpc' = "b_plan"
    /\ UNCHANGED <<mpc, cpc, running, alloc, g_fft_plan, playing, ring,
                   fft_output, fft_snapshot, locks, bgLocal, k_main, cb_left,
                   status, crashed, log, render>>

\* The Hann loop over fft_input, then the test g_fft_plan == NULL.
BgHann ==
    /\ Alive /\ bpc = "b_hann"
    /\ fft_input' = [j \in 0..(FFT_SIZE - 1) |-> Taper(fft_input[j], j)]
    /\ bpc' = IF g_fft_plan = NULL THEN "b_plan" ELSE "b_lock_fft"
    /\ UNCHANGED <<mpc, cpc, running, alloc, g_fft_plan, playing, ring,
                   fft_output, fft_snapshot, locks, bgLocal, k_main, cb_left,
                   status, crashed, log, render>>

\* fftwf_plan_dft_r2c_1d(FFT_SIZE, fft_input, fft_output, FFTW_MEASURE):
\* either no plan can be made and NULL comes back, or the planner starts to
\* measure candidate transforms on the two arrays, overwriting the input.
BgPlanBegin(oks) ==
    /\ Alive /\ bpc = "b_plan"
    /\ \E ok \in oks :
          IF ok
             THEN /\ fft_input' = [j \in 0..(FFT_SIZE - 1) |-> Scratch]
                  /\ i_bg' = 0
                  /\ bpc' = "b_plan_out"
             ELSE /\ bpc' = "b_lock_fft"
                  /\ UNCHANGED <<fft_input, i_bg>>
    /\ UNCHANGED <<mpc, cpc, running, alloc, g_fft_plan, playing, ring,
                   fft_output, fft_snapshot, locks, idx, k_main, cb_left,
                   status, crashed, log, render>>

\* The planner's measurement writes the output array, one bin at a time;
\* after the last one the plan is stored in g_fft_plan.
BgPlanMeasure ==
    /\ Alive /\ bpc = "b_plan_out"
    /\ fft_output' = [fft_output EXCEPT ![i_bg] = Scratch]
    /\ i_bg' = i_bg + 1
    /\ IF i_bg' = BINS
          THEN /\ g_fft_plan' = "plan"
               /\ log' = [log EXCEPT !.acquired = Append(@, "plan")]
               /\ bpc' = "b_lock_fft"
          ELSE /\ bpc' = "b_plan_out"
               /\ UNCHANGED <<g_fft_plan, log>>
    /\ UNCHANGED <<mpc, cpc, running, alloc, playing, ring, fft_input,
                   fft_snapshot, locks, idx, k_main, cb_left, status, crashed,
                   render>>

\* SDL_LockMutex(state->fft_mutex)
BgLockFft ==
    /\ Alive /\ bpc = "b_lock_fft"
    /\ fft_owner = "none"
    /\ fft_owner' = "bg"
    /\ bpc' = "b_execute"
    /\ UNCHANGED <<mpc, cpc, running, alloc, g_fft_plan, playing, ring, ffts,
                   fft_snapshot, audio_owner, bgLocal, k_main, cb_left, status,
                   crashed, log, render>>

\* fftwf_execute(g_fft_plan): a NULL plan is dereferenced and the process
\* dies; otherwise the transform of fft_input is written to fft_output.
BgExecute ==
    /\ Alive /\ bpc = "b_execute"
    /\ IF g_fft_plan = NULL
          THEN /\ crashed' = TRUE
               /\ UNCHANGED <<fft_output, bpc>>
          ELSE /\ fft_output' = Transform(fft_input)
               /\ bpc' = "b_unlock_fft"
               /\ UNCHANGED crashed
    /\ UNCHANGED <<mpc, cpc, running, alloc, g_fft_plan, playing, ring,
                   fft_input, fft_snapshot, locks, bgLocal, k_main, cb_left,
                   status, log, render>>

\* SDL_UnlockMutex(state->fft_mutex)
BgUnlockFft ==
    /\ Alive /\ bpc = "b_unlock_fft"
    /\ fft_owner' = IF fft_owner = "bg" THEN "none" ELSE fft_owner
    /\ bpc' = "b_delay"
    /\ UNCHANGED <<mpc, cpc, running, alloc, g_fft_plan, playing, ring, ffts,
                   fft_snapshot, audio_owner, bgLocal, k_main, cb_left, status,
                   crashed, log, render>>

\* SDL_Delay(FFT_DELAY_MS)
BgDelay ==
    /\ Alive /\ bpc = "b_delay"
    /\ bpc' = "b_loop"
    /\ UNCHANGED <<mpc, cpc, running, alloc, g_fft_plan, playing, ring, ffts,
                   fft_snapshot, locks, bgLocal, k_main, cb_left, status,
                   crashed, log, render>>

\* ------------------------------------------------- initialize_sdl and main

MainRest == <<bpc, cpc, g_fft_plan, ring, ffts, fft_snapshot, locks, bgLocal,
              k_main, cb_left, crashed, render>>

Acquired(r) ==
    /\ alloc' = [alloc EXCEPT ![r] = TRUE]
    /\ log' = [log EXCEPT !.acquired = Append(@, r)]

\* A step of initialize_sdl: on failure it prints msg and returns false,
\* and main returns EXIT_FAILURE without calling cleanup.
SdlStep(from, to, r, msg, oks) ==
    /\ Alive /\ mpc = from
    /\ \E ok \in oks :
          IF ok
             THEN /\ Acquired(r)
                  /\ mpc' = to
                  /\ UNCHANGED status
             ELSE /\ status' = [status EXCEPT !.diag = msg, !.exit_code = 1]
                  /\ mpc' = "exit"
                  /\ UNCHANGED <<alloc, log>>
    /\ UNCHANGED <<running, playing>>
    /\ UNCHANGED MainRest

\* An acquisition in main: on failure it prints msg, calls cleanup and
\* returns EXIT_FAILURE.
MainStep(from, to, r, msg, oks) ==
    /\ Alive /\ mpc = from
    /\ \E ok \in oks :
          IF ok
             THEN /\ Acquired(r)
                  /\ mpc' = to
                  /\ UNCHANGED status
             ELSE /\ status' = [status EXCEPT !.diag = msg, !.pending = 1]
                  /\ mpc' = "cl_fft_input"
                  /\ UNCHANGED <<alloc, log>>
    /\ UNCHANGED <<running, playing>>
    /\ UNCHANGED MainRest

SdlInit(oks) ==
    SdlStep("m_sdl_init", "m_window", "sdl", "SDL init error", oks)

CreateWindow(oks) ==
    SdlStep("m_window", "m_renderer", "window", "Window creation failed", oks)

CreateRenderer(oks) ==
    SdlStep("m_renderer", "m_audio_open", "renderer",
            "Renderer creation failed", oks)

OpenAudioDevice(oks) ==
    SdlStep("m_audio_open", "m_audio_mutex", "audio_device",
            "Audio device open failed", oks)

CreateAudioMutex(oks) ==
    SdlStep("m_audio_mutex", "m_init_done", "audio_mutex",
            "Audio mutex creation failed", oks)

\* audio_buffer_index = 0; running = true; return true; and in main
\* SDL_SetAudioCallback(state.audio_device, audio_callback, &state).
InitDone ==
    /\ Alive /\ mpc = "m_init_done"
    /\ audio_buffer_index' = 0
    /\ running' = TRUE
    /\ mpc' = "m_alloc_in"
    /\ UNCHANGED <<bpc, cpc, alloc, g_fft_plan, playing, audio_buffer, written,
                   delivery,
                   ffts, fft_snapshot, locks, bgLocal, k_main, cb_left, status,
                   crashed, log, render>>

AllocFftInput(oks) ==
    MainStep("m_alloc_in", "m_alloc_out", "fft_input",
             "Failed to allocate FFT input buffer", oks)

AllocFftOutput(oks) ==
    MainStep("m_alloc_out", "m_fft_mutex", "fft_output",
             "Failed to allocate FFT output buffer", oks)

CreateFftMutex(oks) ==
    MainStep("m_fft_mutex", "m_play", "fft_mutex",
             "FFT mutex creation failed", oks)

\* SDL_PlayAudioDevice(state.audio_device)
PlayAudioDevice ==
    /\ Alive /\ mpc = "m_play"
    /\ playing' = TRUE
    /\ mpc' = "m_create_thread"
    /\ UNCHANGED <<bpc, cpc, running, alloc, g_fft_plan, ring, ffts,
                   fft_snapshot, locks, bgLocal, k_main, cb_left, status,
                   crashed, log, render>>

\* SDL_CreateThread(audio_processing_thread, ...)
CreateThread(oks) ==
    /\ Alive /\ mpc = "m_create_thread"
    /\ \E ok \in oks :
          IF ok
             THEN /\ bpc' = "b_loop"
                  /\ mpc' = "m_loop"
                  /\ UNCHANGED status
             ELSE /\ status' = [status EXCEPT
                                  !.diag = "Failed to create audio processing thread",
                                  !.pending = 1]
                  /\ mpc' = "cl_fft_input"
                  /\ UNCHANGED bpc
    /\ UNCHANGED <<cpc, running, alloc, g_fft_plan, playing, ring, ffts,
                   fft_snapshot, locks, bgLocal, k_main, cb_left, crashed,
                   log, render>>

\* while (state.running)
MainLoop ==
    /\ Alive /\ mpc = "m_loop"
    /\ mpc' = IF running THEN "m_poll" ELSE "m_wait"
    /\ UNCHANGED <<bpc, cpc, running, alloc, g_fft_plan, playing, ring, ffts,
                   fft_snapshot, locks, bgLocal, k_main, cb_left, status,
                   crashed, log, render>>

\* while (SDL_PollEvent(&event)): a quit event clears state.running.
PollEvents(quits) ==
    /\ Alive /\ mpc = "m_poll"
    /\ \E quit \in quits : running' = IF quit THEN FALSE ELSE running
    /\ mpc' = "m_lock_fft"
    /\ UNCHANGED <<bpc, cpc, alloc, g_fft_plan, playing, ring, ffts,
                   fft_snapshot, locks, bgLocal, k_main, cb_left, status,
                   crashed, log, render>>

\* SDL_LockMutex(state.fft_mutex)
MainLockFft ==
    /\ Alive /\ mpc = "m_lock_fft"
    /\ fft_owner = "none"
    /\ fft_owner' = "main"
    /\ k_main' = 0
    /\ mpc' = "m_memcpy"
    /\ UNCHANGED <<bpc, cpc, running, alloc, g_fft_plan, playing, ring, ffts,
                   fft_snapshot, audio_owner, bgLocal, cb_left, status,
                   crashed, log, render>>

\* memcpy(fft_snapshot, state.fft_output, ...), one bin per step
MainMemcpy ==
    /\ Alive /\ mpc = "m_memcpy"
    /\ fft_snapshot' = [fft_snapshot EXCEPT ![k_main] = fft_output[k_main]]
    /\ k_main' = k_main + 1
    /\ mpc' = IF k_main' = BINS THEN "m_unlock_fft" ELSE "m_memcpy"
    /\ UNCHANGED <<bpc, cpc, running, alloc, g_fft_plan, playing, ring, ffts,
                   locks, bgLocal, cb_left, status, crashed, log, render>>

\* The foreground going on to render without releasing the mutex.
MainUnlockFftMissing ==
    /\ Alive /\ mpc = "m_unlock_fft"
    /\ mpc' = "m_render"
    /\ UNCHANGED <<bpc, cpc, running, alloc, g_fft_plan, playing, ring, ffts,
                   fft_snapshot, locks, bgLocal, k_main, cb_left, status,
                   crashed, log, render>>

\* SDL_UnlockMutex(state.fft_mutex)
MainUnlockFft ==
    /\ Alive /\ mpc = "m_unlock_fft"
    /\ fft_owner' = IF fft_owner = "main" THEN "none" ELSE fft_owner
    /\ mpc' = "m_render"
    /\ UNCHANGED <<bpc, cpc, running, alloc, g_fft_plan, playing, ring, ffts,
                   fft_snapshot, audio_owner, bgLocal, k_main, cb_left, status,
                   crashed, log, render>>

\* render_spectrum(state.renderer, fft_snapshot); SDL_Delay(1000 / 60);
\* the snapshot array goes out of scope at the end of the iteration.
MainRender ==
    /\ Alive /\ mpc = "m_render"
    /\ fft_snapshot' = [k \in Bins |-> OutOfScope]
    /\ mpc' = "m_loop"
    /\ UNCHANGED <<bpc, cpc, running, alloc, g_fft_plan, playing, ring, ffts,
                   locks, bgLocal, k_main, cb_left, status, crashed, log,
                   render>>

\* main going on to cleanup without joining the thread.
WaitThreadNoJoin ==
    /\ Alive /\ mpc = "m_wait"
    /\ status' = [status EXCEPT !.pending = 0]
    /\ mpc' = "cl_fft_input"
    /\ UNCHANGED <<bpc, cpc, running, alloc, g_fft_plan, playing, ring, ffts,
                   fft_snapshot, locks, bgLocal, k_main, cb_left, crashed,
                   log, render>>

\* SDL_WaitThread(audio_thread, NULL) returns once the thread has returned;
\* main then calls cleanup.
WaitThread ==
    /\ Alive /\ mpc = "m_wait"
    /\ bpc = "done"
    /\ status' = [status EXCEPT !.pending = 0]
    /\ mpc' = "cl_fft_input"
    /\ UNCHANGED <<bpc, cpc, running, alloc, g_fft_plan, playing, ring, ffts,
                   fft_snapshot, locks, bgLocal, k_main, cb_left, crashed,
                   log, render>>

\* ------------------------------------------------------------------ cleanup

\* if (state->r) { release(state->r); state->r = NULL; }
Release(from, to, r) ==
    /\ Alive /\ mpc = from
    /\ IF alloc[r]
          THEN /\ alloc' = [alloc EXCEPT ![r] = FALSE]
               /\ log' = [log EXCEPT !.released = Append(@, r)]
          ELSE UNCHANGED <<alloc, log>>
    /\ mpc' = to
    /\ UNCHANGED <<running, playing, status>>
    /\ UNCHANGED MainRest

FreeFftInput == Release("cl_fft_input", "cl_fft_output", "fft_input")

FreeFftOutput == Release("cl_fft_output", "cl_fft_mutex", "fft_output")

DestroyFftMutex == Release("cl_fft_mutex", "cl_audio_mutex", "fft_mutex")

DestroyAudioMutex == Release("cl_audio_mutex", "cl_renderer", "audio_mutex")

DestroyRenderer == Release("cl_renderer", "cl_window", "renderer")

DestroyWindow == Release("cl_window", "cl_audio_device", "window")

\* SDL_CloseAudioDevice returns once no callback is in progress; no
\* callback is invoked afterwards.
CloseAudioDevice ==
    /\ Alive /\ mpc = "cl_audio_device"
    /\ IF alloc["audio_device"]
          THEN /\ playing => cpc = "idle"
               /\ alloc' = [alloc EXCEPT !["audio_device"] = FALSE]
               /\ log' = [log EXCEPT !.released = Append(@, "audio_device")]
               /\ playing' = FALSE
          ELSE UNCHANGED <<alloc, log, playing>>
    /\ mpc' = "cl_plan"
    /\ UNCHANGED <<running, status>>
    /\ UNCHANGED MainRest

\* if (g_fft_plan) { fftwf_destroy_plan(g_fft_plan); g_fft_plan = NULL; }
DestroyPlan ==
    /\ Alive /\ mpc = "cl_plan"
    /\ IF g_fft_plan # NULL
          THEN /\ g_fft_plan' = NULL
               /\ log' = [log EXCEPT !.released = Append(@, "plan")]
          ELSE UNCHANGED <<g_fft_plan, log>>
    /\ mpc' = "cl_quit"
    /\ UNCHANGED <<bpc, cpc, running, alloc, playing, ring, ffts, fft_snapshot,
                   locks, bgLocal, k_main, cb_left, status, crashed, render>>

\* SDL_Quit(); back in main: fftwf_cleanup() on the clean path, then
\* return EXIT_SUCCESS or EXIT_FAILURE.
QuitAndReturn ==
    /\ Alive /\ mpc = "cl_quit"
    /\ alloc' = [alloc EXCEPT !["sdl"] = FALSE]
    /\ log' = [log EXCEPT !.released = Append(@, "sdl")]
    /\ status' = [status EXCEPT !.exit_code = status.pending]
    /\ mpc' = "exit"
    /\ UNCHANGED <<running, playing>>
    /\ UNCHANGED MainRest

\* ----------------------------------------------------------- specifications

\* Stream lengths in bytes: empty, odd (a trailing half sample is dropped)
\* and up to MaxBlock whole samples.
Lens == 0..(SAMPLE_BYTES * MaxBlock)

AudioCallback(lens, raws) ==
    \/ CbBegin(lens)
    \/ CbLock
    \/ CbWrite(raws)
    \/ CbUnlock

Background(oks) ==
    \/ BgLoop
    \/ BgLockAudio
    \/ BgCopy
    \/ BgUnlockAudio
    \/ BgHann
    \/ BgPlanBegin(oks)
    \/ BgPlanMeasure
    \/ BgLockFft
    \/ BgExecute
    \/ BgUnlockFft
    \/ BgDelay

Startup(oks) ==
    \/ SdlInit(oks)
    \/ CreateWindow(oks)
    \/ CreateRenderer(oks)
    \/ OpenAudioDevice(oks)
    \/ CreateAudioMutex(oks)
    \/ InitDone
    \/ AllocFftInput(oks)
    \/ AllocFftOutput(oks)
    \/ CreateFftMutex(oks)
    \/ PlayAudioDevice
    \/ CreateThread(oks)

Foreground(quits) ==
    \/ MainLoop
    \/ PollEvents(quits)
    \/ MainLockFft
    \/ MainMemcpy
    \/ MainUnlockFft
    \/ MainRender

Cleanup ==
    \/ WaitThread
    \/ FreeFftInput
    \/ FreeFftOutput
    \/ DestroyFftMutex
    \/ DestroyAudioMutex
    \/ DestroyRenderer
    \/ DestroyWindow
    \/ CloseAudioDevice
    \/ DestroyPlan
    \/ QuitAndReturn

\* The whole program: every acquisition may fail, a quit event may arrive
\* in any frame, and the device delivers blocks of one sample value.
Next ==
    \/ Startup(BOOLEAN)
    \/ Foreground(BOOLEAN)
    \/ Cleanup
    \/ Background(BOOLEAN)
    \/ AudioCallback(Lens, {16384})

Spec == Init /\ [][Next]_vars

\* The capture and transform contexts of the running pipeline: startup
\* succeeds, the device delivers blocks of every length over RawSamples,
\* and the foreground thread rests in its frame delay.
RingNext ==
    \/ Startup({TRUE})
    \/ Background({TRUE})
    \/ AudioCallback(Lens, RawSamples)

RingSpec == Init /\ [][RingNext]_vars

\* The same program under the scheduling the platform provides: every
\* context keeps running while it can take a step, and a thread that waits
\* for a mutex gets it once it has been free often enough.
Fairness ==
    /\ WF_vars(Startup(BOOLEAN) \/ Foreground(BOOLEAN) \/ Cleanup)
    /\ WF_vars(Background(BOOLEAN))
    /\ WF_vars(CbLock \/ CbWrite({16384}) \/ CbUnlock)
    /\ SF_vars(CbLock)
    /\ SF_vars(BgLockAudio)
    /\ SF_vars(BgLockFft)
    /\ SF_vars(MainLockFft)

FairSpec == Init /\ [][Next]_vars /\ Fairness

\* ---------------------------------------------------------- render_spectrum

DbLevels == (0 - DB_FLOOR - MaxDb)..MaxDb

Heights == 0..MaxHeight

\* render_spectrum is entered with the surface height SDL reports and a
\* bin of some level; nothing of the pipeline has been started.
RenderInit ==
    /\ PipelineInit
    /\ db \in DbLevels
    /\ win_h \in Heights
    /\ bar_height = NotComputed

\* The body of the loop over the bins, up to bar_height.
RenderBar ==
    /\ bar_height = NotComputed
    /\ bar_height' = BarHeight(db, win_h)
    /\ UNCHANGED <<pcs, running, alloc, g_fft_plan, playing, ring, ffts,
                   fft_snapshot, locks, bgLocal, k_main, cb_left, status,
                   crashed, log, db, win_h>>

RenderSpec == RenderInit /\ [][RenderBar]_vars

\* -------------------------------------------------------------- properties

\* The window process_audio has copied, as it stands when the copy loop
\* has ended and audio_mutex is still held.
WindowCopied == bpc = "b_unlock_audio"

Normalized(h) == [j \in 0..(Len(h) - 1) |-> Normalize(h[j + 1])]

\* C1: ring buffer circularity. Once at least FFT_SIZE samples have been
\* written, in blocks of any sizes, the window process_audio copies out is
\* the last FFT_SIZE written samples, oldest first.
C1_Circularity ==
    (WindowCopied /\ Len(written) = FFT_SIZE)
        => fft_input = Normalized(written)

\* C1 witness: a window copied after the ring was filled, with the cursor
\* inside the buffer and two different samples in it.
C1_Witness ==
    /\ WindowCopied
    /\ Len(written) = FFT_SIZE
    /\ audio_buffer_index # 0
    /\ written[1] # written[FFT_SIZE]

\* C2: the window snapshot never observes a partial update. While
\* process_audio copies, and when it has copied, the callback is between
\* two whole block deliveries, the cursor is the one read at the start, and
\* what has been copied so far is the ring as it stands at that instant.
C2_AtomicSnapshot ==
    bpc \in {"b_copy", "b_unlock_audio"} =>
        /\ audio_owner = "bg"
        /\ cpc \in {"idle", "cb_lock"}
        /\ idx = audio_buffer_index
        /\ \A j \in 0..(i_bg - 1) :
              fft_input[j] = RingRead(audio_buffer, audio_buffer_index, j)

\* C2 witness: the copy is complete while a delivered block waits for the
\* mutex, after an earlier block was written.
C2_Witness ==
    /\ WindowCopied
    /\ cpc = "cb_lock"
    /\ Len(written) >= 1
    /\ i_bg = FFT_SIZE

InRender == mpc = "m_render"

InPlanner == bpc \in {"b_plan", "b_plan_out"}

InExecute == bpc = "b_execute"

MainHoldsNone == audio_owner # "main" /\ fft_owner # "main"

BgHoldsNone == audio_owner # "bg" /\ fft_owner # "bg"

\* C3 as stated: no lock is held across a call into the rendering surface
\* or the transform library (plan construction and fftwf_execute).
C3_NoLockAcrossLibrary ==
    /\ InRender => MainHoldsNone
    /\ (InPlanner \/ InExecute) => BgHoldsNone

\* C3 amended: no lock is held across render_spectrum or across plan
\* construction, and audio_mutex is never held inside an FFTW call;
\* fftwf_execute runs with fft_mutex, and only fft_mutex, held by the
\* background thread.
C3_Amended ==
    /\ InRender => MainHoldsNone
    /\ InPlanner => BgHoldsNone
    /\ InExecute => (audio_owner # "bg" /\ fft_owner = "bg")

\* C3 witness: the foreground is inside render_spectrum while the
\* background is inside fftwf_execute.
C3_Witness == InRender /\ InExecute /\ g_fft_plan # NULL

\* C4: fft_output is written only while fft_mutex is held by the writer,
\* the planner's writes of the first cycle included.
C4_OutputWrittenUnderLock ==
    bpc \in {"b_plan_out", "b_execute"} => fft_owner = "bg"

CleanupPcs == {"cl_fft_input", "cl_fft_output", "cl_fft_mutex",
               "cl_audio_mutex", "cl_renderer", "cl_window",
               "cl_audio_device", "cl_plan", "cl_quit"}

ThreadGone == bpc \in {"none", "done"}

\* C5: cleanup begins only after audio_processing_thread has returned, so
\* while the thread runs its buffers, mutexes and plan are unreleased.
C5_CleanupAfterThreadExit ==
    /\ mpc \in CleanupPcs \cup {"exit"} => ThreadGone
    /\ ~ThreadGone =>
          /\ alloc["fft_input"] /\ alloc["fft_output"]
          /\ alloc["audio_mutex"] /\ alloc["fft_mutex"]
          /\ log.released = <<>>

\* C5 witness: cleanup has freed fft_input after a thread that ran a
\* transform has returned.
C5_Witness ==
    /\ mpc = "cl_fft_output"
    /\ bpc = "done"
    /\ ~alloc["fft_input"]
    /\ g_fft_plan # NULL

\* A quit event has cleared the flag of a pipeline that was started.
StopRequested == ~running /\ bpc # "none"

Joined == mpc \in CleanupPcs \cup {"exit"}

\* C6: shutdown liveness. Once the running flag has been cleared, the
\* background loop starts at most one further cycle and returns, and main
\* returns from SDL_WaitThread.
C6_ShutdownLiveness ==
    /\ [](log.late <= 1)
    /\ [](StopRequested => <>Joined)

\* C7: no lock is held when cleanup destroys the mutexes, nor at exit.
C7_NoLockHeldAtTeardown ==
    /\ (mpc = "cl_audio_mutex" /\ alloc["audio_mutex"]) => audio_owner = "none"
    /\ (mpc = "cl_fft_mutex" /\ alloc["fft_mutex"]) => fft_owner = "none"
    /\ mpc = "exit" => (audio_owner = "none" /\ fft_owner = "none")

\* C8: exit code 0 only on a clean shutdown, nonzero with a diagnostic on
\* every initialization failure, and no transform executed without a plan.
C8_ExitStatus ==
    /\ (mpc = "exit" /\ status.exit_code = 0) =>
          (status.diag = "none" /\ ~running /\ bpc = "done")
    /\ (mpc = "exit" /\ status.exit_code # 0) => status.diag # "none"
    /\ (mpc = "exit" /\ status.diag # "none") => status.exit_code # 0
    /\ InExecute => g_fft_plan # NULL

\* C9: the bar height lies in [0, 0.8 h], is 0 at or below -80 dB, and does
\* not decrease when the level rises.
C9_BarHeightClamped ==
    bar_height # NotComputed =>
        /\ 0 <= bar_height
        /\ bar_height <= MaxBarHeight(win_h)
        /\ (db <= 0 - DB_FLOOR => bar_height = 0)
        /\ \A lower \in DbLevels : lower <= db => BarHeight(lower, win_h) <= bar_height

\* C10: before FFT_SIZE samples have been written, the window copied is
\* zeros followed by the written samples, oldest first.
C10_ZeroSeeded ==
    (WindowCopied /\ Len(written) < FFT_SIZE) =>
        fft_input = [j \in 0..(FFT_SIZE - 1) |->
                        IF j < FFT_SIZE - Len(written)
                           THEN ZeroSample
                           ELSE Normalize(written[j - (FFT_SIZE - Len(written)) + 1])]

\* C10 witness: a window copied when some, but fewer than FFT_SIZE,
\* samples have been written.
C10_Witness ==
    /\ WindowCopied
    /\ Len(written) >= 1
    /\ Len(written) < FFT_SIZE

Reverse(q) == [j \in 1..Len(q) |-> q[Len(q) + 1 - j]]

\* The resources C11 and C18 speak of (SDL itself is not one of them).
Owned == {"window", "renderer", "audio_device", "audio_mutex", "fft_input",
          "fft_output", "fft_mutex", "plan"}

IsOwned(r) == r \in Owned

AcquiredOwned == SelectSeq(log.acquired, IsOwned)

ReleasedOwned == SelectSeq(log.released, IsOwned)

CleanupDone == mpc = "exit" /\ log.released # <<>>

\* C11: when cleanup has run, the order in which it released the owned
\* resources is the exact reverse of the order in which they were acquired.
C11_ReverseRelease ==
    CleanupDone => ReleasedOwned = Reverse(AcquiredOwned)

\* Who holds which mutex, and where its holder is.
LockPolicy ==
    /\ audio_owner \in {"none", "cb", "bg"}
    /\ fft_owner \in {"none", "bg", "main"}
    /\ audio_owner = "cb" => cpc \in {"cb_write", "cb_unlock"}
    /\ audio_owner = "bg" => bpc \in {"b_copy", "b_unlock_audio"}
    /\ fft_owner = "bg" => bpc \in {"b_execute", "b_unlock_fft"}
    /\ fft_owner = "main" => mpc \in {"m_memcpy", "m_unlock_fft"}

\* A step of the audio callback context.
CallbackStep == cpc' # cpc \/ cb_left' # cb_left

\* C12: audio_mutex is held only by the callback's write and by the window
\* copy of process_audio, fft_mutex only by the transform's output write
\* and by main's render copy; a step of the audio callback never takes
\* fft_mutex and never touches the transform stage's state.
C12_LockOwnership ==
    /\ []LockPolicy
    /\ [][CallbackStep =>
            UNCHANGED <<fft_owner, fft_input, fft_output, g_fft_plan, bpc,
                        bgLocal>>]_vars

\* C12 witness: the callback writes under audio_mutex while main copies
\* under fft_mutex and the background thread waits for fft_mutex.
C12_Witness ==
    /\ audio_owner = "cb" /\ cpc = "cb_write"
    /\ fft_owner = "main" /\ mpc = "m_memcpy"
    /\ bpc = "b_lock_fft"

\* The ring positions an invocation has stored to so far.
Touched ==
    {(delivery.start + j) % FFT_SIZE : j \in 0..(delivery.len - cb_left - 1)}

\* While an invocation is writing, the cursor is its start plus the samples
\* stored so far, modulo FFT_SIZE.
CursorFollowsDelivery ==
    cpc \in {"cb_write", "cb_unlock"} =>
        /\ audio_buffer_index
              = (delivery.start + delivery.len - cb_left) % FFT_SIZE
        /\ cpc = "cb_unlock" => cb_left = 0

\* A step that changes the ring or its cursor is one iteration of the
\* callback's loop: it stores at the old cursor only and advances it by one.
RingStepIsCallbackWrite ==
    (audio_buffer' # audio_buffer \/ audio_buffer_index' # audio_buffer_index)
        => /\ cpc = "cb_write" /\ cb_left' = cb_left - 1
           /\ \A j \in 0..(FFT_SIZE - 1) :
                 j # audio_buffer_index => audio_buffer'[j] = audio_buffer[j]
           /\ audio_buffer_index' = (audio_buffer_index + 1) % FFT_SIZE
           /\ UNCHANGED <<mpc, bpc>>

\* C13: only the capture callback changes audio_buffer and
\* audio_buffer_index; an invocation delivering k samples stores to the
\* positions (old cursor + j) mod FFT_SIZE for j < k and nowhere else, and
\* leaves the cursor at (old cursor + k) mod FFT_SIZE.
C13_RingFrame ==
    /\ []CursorFollowsDelivery
    /\ [][RingStepIsCallbackWrite]_vars

\* C13 witness: an invocation longer than the ring has stored all its
\* samples, wrapping past every position, while process_audio and the
\* foreground loop are running.
C13_Witness ==
    /\ cpc = "cb_unlock" /\ delivery.len > FFT_SIZE
    /\ Touched = 0..(FFT_SIZE - 1)
    /\ audio_buffer_index = (delivery.start + delivery.len) % FFT_SIZE
    /\ delivery.start # 0
    /\ bpc = "b_hann" /\ mpc = "m_render"

IsPlan(r) == r = "plan"
PlansBuilt == Len(SelectSeq(log.acquired, IsPlan))

\* Some transform execution has completed: fft_output holds a bin of it.
Executed == \E k \in Bins : fft_output[k].kind = "bin"

\* The plan is built at most once, before any execution; an execution after
\* the first uses it; the buffers live while the thread can still execute.
PlanOnce ==
    /\ PlansBuilt <= 1
    /\ g_fft_plan # NULL => PlansBuilt = 1
    /\ InPlanner => ~Executed /\ g_fft_plan = NULL
    /\ InExecute /\ Executed => g_fft_plan = "plan"
    /\ ~ThreadGone => alloc["fft_input"] /\ alloc["fft_output"]

\* C14: the transform plan is constructed at most once, in the first
\* transform cycle; every later cycle executes that same plan; the plan is
\* not dropped, and fft_input and fft_output are not freed, while the
\* background thread can still execute a transform.
C14_PlanOnce ==
    /\ []PlanOnce
    /\ [][(g_fft_plan # NULL /\ g_fft_plan' # g_fft_plan) => ThreadGone]_vars
    /\ [][(alloc["fft_input"] /\ ~alloc'["fft_input"]) => ThreadGone]_vars
    /\ [][(alloc["fft_output"] /\ ~alloc'["fft_output"]) => ThreadGone]_vars

\* C14 witness: a later cycle is about to execute with the plan built in
\* the first one.
C14_Witness ==
    /\ InExecute /\ Executed /\ g_fft_plan = "plan" /\ PlansBuilt = 1
    /\ fft_owner = "bg"

\* fft_input holds the Hann-tapered, linearized copy of the ring.
TaperedWindow ==
    \A j \in 0..(FFT_SIZE - 1) :
        /\ fft_input[j].kind = "tapered"
        /\ fft_input[j].hann = j
        /\ fft_input[j].x.kind = "sample"

\* C15: whenever fftwf_execute is about to run on a constructed plan,
\* fft_input holds the Hann-tapered linearized copy of the ring taken at
\* the start of the same cycle, the first cycle included.
C15_ExecuteConsumesWindow ==
    (InExecute /\ g_fft_plan # NULL) => TaperedWindow

Destroyed(r) == \E j \in 1..Len(log.released) : log.released[j] = r

InCallback == cpc \in {"cb_lock", "cb_write", "cb_unlock"}

\* C16: once cleanup has destroyed audio_mutex the audio device is no
\* longer delivering, so no audio_callback invocation is in progress or can
\* start on the destroyed mutex.
C16_NoCallbackOnDestroyedMutex ==
    Destroyed("audio_mutex") => (~playing /\ ~InCallback)

\* The snapshot is, bin for bin, the output of one transform execution.
CompleteSnapshot ==
    \E w \in {fft_snapshot[k].of : k \in {b \in Bins : fft_snapshot[b].kind = "bin"}} :
        fft_snapshot = Transform(w)

\* C17: every snapshot handed to render_spectrum is the complete output of
\* one finished transform execution; in particular it is never the
\* uninitialized contents of fft_output.
C17_RendersCompleteOutput ==
    InRender => CompleteSnapshot

Count(q, r) == Cardinality({j \in 1..Len(q) : q[j] = r})

\* C18: when main has returned, every owned resource that was acquired has
\* been released exactly once, and nothing was released that was not
\* acquired.
C18_ReleasedExactlyOnce ==
    mpc = "exit" =>
        \A r \in Owned : Count(log.released, r) = Count(log.acquired, r)

\* No context holds audio_mutex and fft_mutex together.
NoDoubleHold ==
    /\ ~(audio_owner = "bg" /\ fft_owner = "bg")
    /\ ~(audio_owner = "cb" /\ fft_owner = "cb")
    /\ ~(audio_owner = "main" /\ fft_owner = "main")

\* C19: no context ever holds both mutexes, and under fair scheduling the
\* audio callback, the background loop and the foreground loop each
\* eventually obtain the lock they are waiting for.
C19_DeadlockFree ==
    /\ []NoDoubleHold
    /\ (cpc = "cb_lock") ~> (cpc \in {"cb_write", "cb_unlock"})
    /\ (bpc = "b_lock_audio") ~> (bpc = "b_copy")
    /\ (bpc = "b_lock_fft") ~> (bpc = "b_execute")
    /\ (mpc = "m_lock_fft") ~> (mpc = "m_memcpy")

\* C20: the write cursor is always inside the ring and equals the number
\* of samples written since startup modulo FFT_SIZE, and so is every index
\* that process_audio reads at.
C20_CursorInRange ==
    /\ audio_buffer_index \in 0..(FFT_SIZE - 1)
    /\ audio_buffer_index = delivery.total
    /\ audio_buffer_index \in DOMAIN audio_buffer
    /\ bpc = "b_copy" => (idx + i_bg) % FFT_SIZE \in DOMAIN audio_buffer

\* C20 witness: the cursor has wrapped (the ring is full and more samples
\* than FFT_SIZE have gone by) and process_audio is reading from a cursor
\* in the middle of the ring.
C20_Witness ==
    /\ Len(written) = FFT_SIZE /\ audio_buffer_index # 0
    /\ bpc = "b_copy" /\ idx # 0 /\ i_bg > 0
    /\ \A j \in 0..(FFT_SIZE - 1) : audio_buffer[j] # ZeroSample

=============================================================================
